---- MODULE Spec2Model ----
(***************************************************************************)
(* N-gram analysis script of the Google Ads scripts collection             *)
(* (src/unnamed/part_001): main, getSearchQueryData, analyzeNgrams and     *)
(* generateRecommendations; and, each as a specification of its own at the *)
(* end of the module, the daily budget monitor                             *)
(* (src/scripts/budget-pacing/daily-budget-monitor.js) and the negative    *)
(* keyword miner (src/unnamed/part_002).  The three scripts share nothing: *)
(* a run of one leaves the state of the others as it is.                   *)
(*                                                                         *)
(* Representation.  A JavaScript string is a sequence of one-character     *)
(* strings, so that split, filter, slice and join are computed and not     *)
(* assumed.  A JavaScript object used as a map is the sequence of its own  *)
(* properties in insertion order, which is the order of `for (key in ..)`  *)
(* for keys that are not array indices (no modelled key is made of         *)
(* digits).  Counts and money are naturals (money in whole currency        *)
(* units); a quotient a / b is the pair [n |-> a, d |-> b] and quotients   *)
(* are compared by cross multiplication, i.e. exactly.                     *)
(***************************************************************************)
EXTENDS Integers, Sequences, FiniteSets, TLC

VARIABLES
  CONFIG,           \* the script's global CONFIG object, as edited by the user
  rows,             \* rows of SEARCH_QUERY_PERFORMANCE_REPORT still to be read
  queryData,        \* main: var queryData
  ngramResults,     \* main: var ngramResults (size -> map of aggregates)
  sizeIdx,          \* main: position of CONFIG.NGRAM_SIZES.forEach (1-based)
  ngrams,           \* analyzeNgrams: var ngrams of the call in progress
  recIdx,           \* analyzeNgrams: position of queryData.forEach (1-based)
  keywords,         \* generateRecommendations: var keywords, after the sort
  negatives,        \* generateRecommendations: var negatives, after the sort
  recommendations,  \* main: var recommendations (the returned object)
  pc,               \* position of main
  monitor,          \* the run of the daily budget monitor (its account and locals)
  miner             \* the run of the negative keyword miner (its account and locals)

vars == <<CONFIG, rows, queryData, ngramResults, sizeIdx, ngrams, recIdx,
          keywords, negatives, recommendations, pc, monitor, miner>>

\* the other two scripts before they run
MonitorIdle == [ pc |-> "idle" ]
MinerIdle == [ pc |-> "idle" ]

-----------------------------------------------------------------------------
(* Numbers *)

Min(a, b) == IF a < b THEN a ELSE b

\* cond ? num / den : 0
Quotient(cond, num, den) == IF cond THEN [n |-> num, d |-> den] ELSE [n |-> 0, d |-> 1]

\* q >= t and q <= t, q > k for quotients with positive denominators
Geq(q, t) == q.n * t.d >= t.n * q.d
Leq(q, t) == q.n * t.d <= t.n * q.d
GtInt(q, k) == q.n > k * q.d

-----------------------------------------------------------------------------
(* Strings *)

SPACE == " "
TAB == "\t"

\* the class \s of the regular expression /\s+/
IsWhitespace(c) == c \in {SPACE, TAB}

\* String.prototype.toLowerCase on one character
LowerChar(c) ==
  CASE c = "S" -> "s"
    [] c = "T" -> "t"
    [] c = "C" -> "c"
    [] OTHER -> c

toLowerCase(s) == [i \in 1..Len(s) |-> LowerChar(s[i])]

\* String.prototype.split(/\s+/): the pieces between maximal runs of
\* whitespace, empty pieces at the two ends included
RECURSIVE splitFrom(_, _, _)
splitFrom(s, piece, inRun) ==
  IF s = <<>> THEN <<piece>>
  ELSE IF IsWhitespace(Head(s))
       THEN IF inRun THEN splitFrom(Tail(s), piece, TRUE)
            ELSE <<piece>> \o splitFrom(Tail(s), <<>>, TRUE)
       ELSE splitFrom(Tail(s), Append(piece, Head(s)), FALSE)

split(s) == splitFrom(s, <<>>, FALSE)

\* Array.prototype.join(' ')
RECURSIVE join(_)
join(ws) ==
  IF ws = <<>> THEN <<>>
  ELSE IF Len(ws) = 1 THEN ws[1]
  ELSE ws[1] \o <<SPACE>> \o join(Tail(ws))

\* Array.prototype.slice(from, to) for 0 <= from <= to
slice(ws, from, to) == SubSeq(ws, from + 1, Min(to, Len(ws)))

-----------------------------------------------------------------------------
(* Configuration *)

\* CONFIG.STOP_WORDS as shipped
STOP_WORDS == <<
  <<"a">>, <<"a","n">>, <<"t","h","e">>, <<"a","n","d">>, <<"o","r">>,
  <<"b","u","t">>, <<"i","n">>, <<"o","n">>, <<"a","t">>, <<"t","o">>,
  <<"f","o","r">>, <<"o","f">>, <<"w","i","t","h">>, <<"b","y">>,
  <<"f","r","o","m">>, <<"a","s">>, <<"i","s">>, <<"w","a","s">>,
  <<"a","r","e">>, <<"w","e","r","e">>, <<"b","e","e","n">>, <<"b","e">>,
  <<"h","a","v","e">>, <<"h","a","s">>, <<"h","a","d">>, <<"d","o">>,
  <<"d","o","e","s">>, <<"d","i","d">>, <<"w","i","l","l">>,
  <<"w","o","u","l","d">>, <<"c","o","u","l","d">>,
  <<"s","h","o","u","l","d">>, <<"m","a","y">>, <<"m","i","g","h","t">>,
  <<"m","u","s","t">>, <<"s","h","a","l","l">>, <<"c","a","n">>,
  <<"n","e","e","d">>, <<"i","t">>, <<"i","t","s">>, <<"m","y">>,
  <<"y","o","u","r">>, <<"o","u","r">>, <<"t","h","e","i","r">>,
  <<"t","h","i","s">>, <<"t","h","a","t">>, <<"t","h","e","s","e">>,
  <<"t","h","o","s","e">>, <<"i">>, <<"y","o","u">>, <<"h","e">>,
  <<"s","h","e">>, <<"w","e">>, <<"t","h","e","y">>, <<"w","h","a","t">>,
  <<"w","h","i","c","h">>, <<"w","h","o">>, <<"w","h","o","m">>,
  <<"h","o","w">>, <<"w","h","e","n">>, <<"w","h","e","r","e">>,
  <<"w","h","y">>
>>

\* CONFIG as shipped (the options the analysis reads); 0.05 is 5/100 etc.
DefaultConfig ==
  [ MIN_IMPRESSIONS     |-> 50,
    MIN_CLICKS          |-> 5,
    NGRAM_SIZES         |-> <<1, 2, 3>>,
    HIGH_CTR_THRESHOLD  |-> [n |-> 5, d |-> 100],
    LOW_CTR_THRESHOLD   |-> [n |-> 1, d |-> 100],
    HIGH_CONV_RATE      |-> [n |-> 3, d |-> 100],
    HIGH_CPA_MULTIPLIER |-> 2,
    TARGET_CPA          |-> 0,
    STOP_WORDS          |-> STOP_WORDS ]

\* Names of the properties every object inherits from Object.prototype that
\* can be spelled with lower-case letters: looking one of them up in an
\* object literal yields a truthy value although the object does not own it.
ObjectPrototypeKeys ==
  { <<"c","o","n","s","t","r","u","c","t","o","r">> }

-----------------------------------------------------------------------------
(* analyzeNgrams *)

Range(f) == { f[i] : i \in DOMAIN f }

\* own property lookup in a map kept as a sequence of aggregates
HasOwn(map, key) == \E i \in DOMAIN map : map[i].ngram = key
IndexOf(map, key) == CHOOSE i \in DOMAIN map : map[i].ngram = key

\* the truthiness of obj[key] for an object literal holding truthy values
Truthy(ownKeys, key) == key \in ownKeys \/ key \in ObjectPrototypeKeys

\* var stopWords = CONFIG.STOP_WORDS.reduce(...): the keys set to true
stopWords(cfg) == Range(cfg.STOP_WORDS)

\* query.query.split(/\s+/).filter(word.length > 1 && !stopWords[word])
words(query, cfg) ==
  SelectSeq(split(query.query),
            LAMBDA word : Len(word) > 1 /\ ~Truthy(stopWords(cfg), word))

\* words.slice(i, i + ngramSize).join(' ')
ngramAt(ws, i, ngramSize) == join(slice(ws, i, i + ngramSize))

\* a new aggregate that already counts one query
newAggregateCounted(ngram) ==
  [ ngram |-> ngram, queries |-> 1, impressions |-> 0, clicks |-> 0,
    cost |-> 0, conversions |-> 0, conversionValue |-> 0 ]

\* the object literal created at the first occurrence of an n-gram
newAggregate(ngram) ==
  [ ngram |-> ngram, queries |-> 0, impressions |-> 0, clicks |-> 0,
    cost |-> 0, conversions |-> 0, conversionValue |-> 0 ]

\* the sums of an aggregate with the cost assigned instead of added
addQueryLastCost(ng, query) ==
  [ ng EXCEPT !.queries = @ + 1,
              !.impressions = @ + query.impressions,
              !.clicks = @ + query.clicks,
              !.cost = query.cost,
              !.conversions = @ + query.conversions,
              !.conversionValue = @ + query.conversionValue ]

\* ngrams[ngram].queries++ and the five += of one loop iteration
addQuery(ng, query) ==
  [ ng EXCEPT !.queries = @ + 1,
              !.impressions = @ + query.impressions,
              !.clicks = @ + query.clicks,
              !.cost = @ + query.cost,
              !.conversions = @ + query.conversions,
              !.conversionValue = @ + query.conversionValue ]

\* one iteration of the for loop that makes a new aggregate at every
\* occurrence, in place of the one the map has
accumulateAlwaysNew(map, ngram, query) ==
  LET others == SelectSeq(map, LAMBDA ng : ng.ngram # ngram)
  IN Append(others, addQuery(newAggregate(ngram), query))

\* one iteration of the for loop: create the aggregate unless ngrams[ngram]
\* is truthy, then add the query to ngrams[ngram]; an inherited property is
\* truthy and is not a property of the map, which then stays as it is
accumulate(map, ngram, query) ==
  LET created == IF Truthy({ map[i].ngram : i \in DOMAIN map }, ngram)
                 THEN map
                 ELSE Append(map, newAggregate(ngram))
  IN IF HasOwn(created, ngram)
     THEN [ created EXCEPT ![IndexOf(created, ngram)] = addQuery(@, query) ]
     ELSE created

\* the loop with each distinct n-gram of a query counted once
RECURSIVE ngramLoopDistinct(_, _, _, _, _)
ngramLoopDistinct(map, ws, i, ngramSize, query) ==
  IF i <= Len(ws) - ngramSize
  THEN LET ngram == ngramAt(ws, i, ngramSize)
           seen  == \E j \in 0..(i - 1) : ngramAt(ws, j, ngramSize) = ngram
       IN ngramLoopDistinct(IF seen THEN map ELSE accumulate(map, ngram, query),
                            ws, i + 1, ngramSize, query)
  ELSE map

\* the for loop stopped one window early
RECURSIVE ngramLoopShort(_, _, _, _, _)
ngramLoopShort(map, ws, i, ngramSize, query) ==
  IF i < Len(ws) - ngramSize
  THEN ngramLoopShort(accumulate(map, ngramAt(ws, i, ngramSize), query),
                      ws, i + 1, ngramSize, query)
  ELSE map

\* for (var i = 0; i <= words.length - ngramSize; i++) { ... }
RECURSIVE ngramLoop(_, _, _, _, _)
ngramLoop(map, ws, i, ngramSize, query) ==
  IF i <= Len(ws) - ngramSize
  THEN ngramLoop(accumulate(map, ngramAt(ws, i, ngramSize), query),
                 ws, i + 1, ngramSize, query)
  ELSE map

\* the callback of queryData.forEach for one query record
foldQuery(map, query, ngramSize, cfg) ==
  ngramLoop(map, words(query, cfg), 0, ngramSize, query)

\* the derived metrics without the guards on the denominators
deriveUnguarded(ng) ==
  [ ngram |-> ng.ngram, queries |-> ng.queries,
    impressions |-> ng.impressions, clicks |-> ng.clicks, cost |-> ng.cost,
    conversions |-> ng.conversions, conversionValue |-> ng.conversionValue,
    ctr      |-> [n |-> ng.clicks, d |-> ng.impressions],
    cpc      |-> [n |-> ng.cost, d |-> ng.clicks],
    convRate |-> [n |-> ng.conversions, d |-> ng.clicks],
    cpa      |-> [n |-> ng.cost, d |-> ng.conversions],
    roas     |-> [n |-> ng.conversionValue, d |-> ng.cost] ]

\* the derived metrics of one aggregate
derive(ng) ==
  [ ngram |-> ng.ngram, queries |-> ng.queries,
    impressions |-> ng.impressions, clicks |-> ng.clicks, cost |-> ng.cost,
    conversions |-> ng.conversions, conversionValue |-> ng.conversionValue,
    ctr      |-> Quotient(ng.impressions > 0, ng.clicks, ng.impressions),
    cpc      |-> Quotient(ng.clicks > 0, ng.cost, ng.clicks),
    convRate |-> Quotient(ng.clicks > 0, ng.conversions, ng.clicks),
    cpa      |-> Quotient(ng.conversions > 0, ng.cost, ng.conversions),
    roas     |-> Quotient(ng.cost > 0, ng.conversionValue, ng.cost) ]

\* for (var key in ngrams) { ... derived metrics ... }
deriveMetrics(map) == [ i \in DOMAIN map |-> derive(map[i]) ]

\* queryData.forEach(...) over the records lo..hi, in order: the records
\* lo..mid are folded into the map (and the result is computed, which the
\* test on its length asks for) before the records after mid
RECURSIVE foldRange(_, _, _, _, _, _)
foldRange(map, data, lo, hi, ngramSize, cfg) ==
  IF lo > hi THEN map
  ELSE IF lo = hi THEN foldQuery(map, data[lo], ngramSize, cfg)
  ELSE LET mid  == (lo + hi) \div 2
           left == foldRange(map, data, lo, mid, ngramSize, cfg)
       IN IF Len(left) >= 0
            THEN foldRange(left, data, mid + 1, hi, ngramSize, cfg)
            ELSE left

\* analyzeNgrams(queryData, ngramSize)
analyzeNgrams(data, ngramSize, cfg) ==
  deriveMetrics(foldRange(<<>>, data, 1, Len(data), ngramSize, cfg))

-----------------------------------------------------------------------------
(* getSearchQueryData *)

\* data.push({...}) for one report row; the numeric columns are modelled by
\* the numbers parseInt and parseFloat read from them
queryRecord(row) ==
  [ query           |-> toLowerCase(row.Query),
    campaign        |-> row.CampaignName,
    impressions     |-> row.Impressions,
    clicks          |-> row.Clicks,
    cost            |-> row.Cost,
    conversions     |-> row.Conversions,
    conversionValue |-> row.ConversionValue ]

\* the query records with the header line of the report read as a row
getSearchQueryDataWithHeader(report) ==
  << queryRecord([ Query |-> <<"Q","u","e","r","y">>, CampaignName |-> "CampaignName",
                   Impressions |-> 0, Clicks |-> 0, Cost |-> 0,
                   Conversions |-> 0, ConversionValue |-> 0 ]) >>
    \o [ i \in DOMAIN report |-> queryRecord(report[i]) ]

getSearchQueryData(report) == [ i \in DOMAIN report |-> queryRecord(report[i]) ]

-----------------------------------------------------------------------------
(* generateRecommendations *)

\* keywords.slice(0, 100) and negatives.slice(0, 100)
MaxResults == 100

\* the volume floor compared with the wrong option
lowVolumeByMinClicks(ng, cfg) == ng.impressions < cfg.MIN_CLICKS

\* if (ng.impressions < CONFIG.MIN_IMPRESSIONS) continue;
lowVolume(ng, cfg) == ng.impressions < cfg.MIN_IMPRESSIONS

\* if (ng.clicks >= CONFIG.MIN_CLICKS) { ... both pushes ... }
enoughClicks(ng, cfg) == ng.clicks >= cfg.MIN_CLICKS

\* the two rate comparisons made strict
highPerformerStrict(ng, cfg) ==
  \/ ~Leq(ng.ctr, cfg.HIGH_CTR_THRESHOLD)
  \/ ~Leq(ng.convRate, cfg.HIGH_CONV_RATE)

\* ng.ctr >= CONFIG.HIGH_CTR_THRESHOLD || ng.convRate >= CONFIG.HIGH_CONV_RATE
highPerformer(ng, cfg) ==
  \/ Geq(ng.ctr, cfg.HIGH_CTR_THRESHOLD)
  \/ Geq(ng.convRate, cfg.HIGH_CONV_RATE)

\* the reason with the CTR test first
keywordReasonCtrFirst(ng, cfg) ==
  IF Geq(ng.ctr, cfg.HIGH_CTR_THRESHOLD) THEN "High CTR" ELSE "High conversion rate"

\* ng.convRate >= CONFIG.HIGH_CONV_RATE ? 'High conversion rate' : 'High CTR'
keywordReason(ng, cfg) ==
  IF Geq(ng.convRate, cfg.HIGH_CONV_RATE) THEN "High conversion rate" ELSE "High CTR"

\* the CPA comparison made inclusive
highCpaInclusive(ng, cfg) ==
  /\ cfg.TARGET_CPA > 0
  /\ ng.cpa.n >= cfg.TARGET_CPA * cfg.HIGH_CPA_MULTIPLIER * ng.cpa.d

\* the CPA test without the test that a target is configured
highCpaNoTargetGuard(ng, cfg) ==
  GtInt(ng.cpa, cfg.TARGET_CPA * cfg.HIGH_CPA_MULTIPLIER)

\* CONFIG.TARGET_CPA > 0 && ng.cpa > CONFIG.TARGET_CPA * CONFIG.HIGH_CPA_MULTIPLIER
highCpa(ng, cfg) ==
  /\ cfg.TARGET_CPA > 0
  /\ GtInt(ng.cpa, cfg.TARGET_CPA * cfg.HIGH_CPA_MULTIPLIER)

\* ng.ctr <= CONFIG.LOW_CTR_THRESHOLD || (... high CPA ...)
lowPerformer(ng, cfg) ==
  \/ Leq(ng.ctr, cfg.LOW_CTR_THRESHOLD)
  \/ highCpa(ng, cfg)

\* the reason with the CPA test first
negativeReasonCpaFirst(ng, cfg) ==
  IF highCpa(ng, cfg) THEN "High CPA" ELSE "Low CTR"

\* ng.ctr <= CONFIG.LOW_CTR_THRESHOLD ? 'Low CTR' : 'High CPA'
negativeReason(ng, cfg) ==
  IF Leq(ng.ctr, cfg.LOW_CTR_THRESHOLD) THEN "Low CTR" ELSE "High CPA"

\* the object pushed to keywords with the cost per click in the place of
\* the cost per conversion
keywordEntryCpc(ng, size, cfg) ==
  [ ngram |-> ng.ngram, size |-> size, reason |-> keywordReason(ng, cfg),
    impressions |-> ng.impressions, clicks |-> ng.clicks, ctr |-> ng.ctr,
    conversions |-> ng.conversions, convRate |-> ng.convRate, cpa |-> ng.cpc ]

\* the object pushed to keywords
keywordEntry(ng, size, cfg) ==
  [ ngram |-> ng.ngram, size |-> size, reason |-> keywordReason(ng, cfg),
    impressions |-> ng.impressions, clicks |-> ng.clicks, ctr |-> ng.ctr,
    conversions |-> ng.conversions, convRate |-> ng.convRate, cpa |-> ng.cpa ]

\* the object pushed to negatives
negativeEntry(ng, size, cfg) ==
  [ ngram |-> ng.ngram, size |-> size, reason |-> negativeReason(ng, cfg),
    impressions |-> ng.impressions, clicks |-> ng.clicks, ctr |-> ng.ctr,
    cost |-> ng.cost, conversions |-> ng.conversions, cpa |-> ng.cpa ]

\* the aggregates of one map for which the loop body reaches the push to
\* keywords, in the order of `for (var key in ngrams)`
keywordsPushedFor(map, size, cfg) ==
  LET hit == SelectSeq(map, LAMBDA ng : /\ ~lowVolume(ng, cfg)
                                        /\ enoughClicks(ng, cfg)
                                        /\ highPerformer(ng, cfg))
  IN [ k \in DOMAIN hit |-> keywordEntry(hit[k], size, cfg) ]

\* the negative candidates when the second test is the else branch of the
\* first
negativesPushedForElse(map, size, cfg) ==
  LET hit == SelectSeq(map, LAMBDA ng : /\ ~lowVolume(ng, cfg)
                                        /\ enoughClicks(ng, cfg)
                                        /\ ~highPerformer(ng, cfg)
                                        /\ lowPerformer(ng, cfg))
  IN [ k \in DOMAIN hit |-> negativeEntry(hit[k], size, cfg) ]

\* the same for the push to negatives
negativesPushedFor(map, size, cfg) ==
  LET hit == SelectSeq(map, LAMBDA ng : /\ ~lowVolume(ng, cfg)
                                        /\ enoughClicks(ng, cfg)
                                        /\ lowPerformer(ng, cfg))
  IN [ k \in DOMAIN hit |-> negativeEntry(hit[k], size, cfg) ]

\* CONFIG.NGRAM_SIZES.forEach(function(size) { ... }) from the s-th size on;
\* ngramResults[size] of a size that was never analysed is undefined and
\* `for in` over undefined runs no iteration
RECURSIVE classifySizes(_, _, _, _)
classifySizes(lists, results, s, cfg) ==
  IF s > Len(cfg.NGRAM_SIZES) THEN lists
  ELSE LET size == cfg.NGRAM_SIZES[s]
           map  == IF size \in DOMAIN results THEN results[size] ELSE <<>>
       IN classifySizes(
            [ keywords  |-> lists.keywords \o keywordsPushedFor(map, size, cfg),
              negatives |-> lists.negatives \o negativesPushedFor(map, size, cfg) ],
            results, s + 1, cfg)

\* the sort with the comparator reversed: a[field] - b[field]
sortAsc(list, field) ==
  LET position == [ i \in DOMAIN list |->
                      1 + Cardinality({ j \in DOMAIN list :
                                          \/ list[j][field] < list[i][field]
                                          \/ /\ list[j][field] = list[i][field]
                                             /\ j < i }) ]
  IN [ p \in DOMAIN list |-> list[CHOOSE i \in DOMAIN list : position[i] = p] ]

\* list.sort(function(a, b) { return b[field] - a[field]; }): the stable
\* sort by descending field; the element at index i goes to the position
\* after all elements that are larger, or equal and earlier
sortDesc(list, field) ==
  LET position == [ i \in DOMAIN list |->
                      1 + Cardinality({ j \in DOMAIN list :
                                          \/ list[j][field] > list[i][field]
                                          \/ /\ list[j][field] = list[i][field]
                                             /\ j < i }) ]
  IN [ p \in DOMAIN list |-> list[CHOOSE i \in DOMAIN list : position[i] = p] ]

\* each size's entries sorted and cut on their own, one size after the other
RECURSIVE perSizeLists(_, _, _, _)
perSizeLists(lists, results, s, cfg) ==
  IF s > Len(cfg.NGRAM_SIZES) THEN lists
  ELSE LET size == cfg.NGRAM_SIZES[s]
           map  == IF size \in DOMAIN results THEN results[size] ELSE <<>>
       IN perSizeLists(
            [ keywords  |-> lists.keywords \o
                slice(sortDesc(keywordsPushedFor(map, size, cfg), "conversions"), 0, MaxResults),
              negatives |-> lists.negatives \o
                slice(sortDesc(negativesPushedFor(map, size, cfg), "cost"), 0, MaxResults) ],
            results, s + 1, cfg)

sortedListsPerSize(results, cfg) ==
  perSizeLists([keywords |-> <<>>, negatives |-> <<>>], results, 1, cfg)

\* the arrays keywords and negatives after the two sorts
sortedLists(results, cfg) ==
  LET pushed == classifySizes([keywords |-> <<>>, negatives |-> <<>>], results, 1, cfg)
  IN [ keywords  |-> sortDesc(pushed.keywords, "conversions"),
       negatives |-> sortDesc(pushed.negatives, "cost") ]

\* the returned object
truncated(lists) ==
  [ keywords  |-> slice(lists.keywords, 0, MaxResults),
    negatives |-> slice(lists.negatives, 0, MaxResults) ]

\* the two arrays cut to their first 100 pushes and sorted afterwards
generateRecommendationsSliceFirst(results, cfg) ==
  LET pushed == classifySizes([keywords |-> <<>>, negatives |-> <<>>], results, 1, cfg)
  IN [ keywords  |-> sortDesc(slice(pushed.keywords, 0, MaxResults), "conversions"),
       negatives |-> sortDesc(slice(pushed.negatives, 0, MaxResults), "cost") ]

\* generateRecommendations(ngramResults): classify, sort, then cut
generateRecommendations(results, cfg) == truncated(sortedLists(results, cfg))

-----------------------------------------------------------------------------
(* Inputs *)

MaxRows == 2          \* rows of a small report
BulkSingles == 103    \* rows of the large report of one-word queries
BulkPairs == 60       \* rows of the large report of two-word queries

Row(q, impressions, clicks, cost, conversions, conversionValue) ==
  [ Query |-> q, CampaignName |-> "Search", Impressions |-> impressions,
    Clicks |-> clicks, Cost |-> cost, Conversions |-> conversions,
    ConversionValue |-> conversionValue ]

\* report rows (every row of the report has Impressions > 0)
Rows ==
  {
    Row(<<"b","u","y",SPACE,"c","h","e","a","p",SPACE,"s","h","o","e","s">>,
        100, 10, 20, 0, 0),
    Row(<<"s","h","o","e","s",SPACE,"s","h","o","e","s">>,
        25, 3, 5, 0, 0),
    Row(<<"t","h","e",SPACE,"r","e","d",SPACE,"S","h","o","e","s">>,
        500, 5, 25, 1, 50),
    Row(<<"c","h","e","a","p",SPACE,SPACE,"s","h","o","e","s",SPACE>>,
        60, 1, 5, 0, 0),
    Row(<<"f","r","e","e",SPACE,"b","o","o","t","s">>,
        600, 4, 30, 0, 0),
    Row(<<"s","a","l","e">>,
        3000, 100, 50, 3, 0),
    Row(<<"C","h","e","a","p",TAB,"s","h","o","e","s">>,
        1000, 40, 100, 1, 0),
    Row(<<"b","u","y",SPACE,"x">>,
        100, 5, 20, 1, 30),
    Row(<<"c","h","e","a","p">>,
        49, 5, 10, 1, 0),
    Row(<<"s","h","o","e","s",SPACE,"c","h","e","a","p",SPACE,"s","h","o","e","s",SPACE,"c","h","e","a","p">>,
        25, 3, 15, 0, 0),
    Row(<<"c","h","e","a","p",SPACE,"b","u","y">>,
        200, 10, 30, 0, 0),
    Row(<<"c","o","n","s","t","r","u","c","t","o","r",SPACE,"s","h","o","e","s">>,
        50, 5, 10, 0, 0),
    Row(<<"b","u","y",SPACE,"b","o","o","t","s">>,
        70, 0, 0, 0, 0)
  }

SeqsUpTo(S, n) == UNION { [1..k -> S] : k \in 0..n }

\* the configurations of the small reports: the shipped one, with the sizes
\* and the target CPA edited
Configs ==
  { [ DefaultConfig EXCEPT !.NGRAM_SIZES = sizes, !.TARGET_CPA = target ] :
      sizes \in { <<1, 2, 3>>, <<1>>, <<2, 1>> }, target \in { 0, 10 } }

\* configurations nothing in the script rejects: no size, the size 0, a
\* size listed twice, a negative CPA multiplier, a negative minimum of
\* impressions, and a stop word written with a capital
EditedConfigs ==
  { [ DefaultConfig EXCEPT !.NGRAM_SIZES = <<>> ],
    [ DefaultConfig EXCEPT !.NGRAM_SIZES = <<0>> ],
    [ DefaultConfig EXCEPT !.NGRAM_SIZES = <<1, 1>> ],
    [ DefaultConfig EXCEPT !.NGRAM_SIZES = <<1>>, !.TARGET_CPA = 10,
                           !.HIGH_CPA_MULTIPLIER = -1 ],
    [ DefaultConfig EXCEPT !.NGRAM_SIZES = <<1>>, !.MIN_IMPRESSIONS = -1 ],
    [ DefaultConfig EXCEPT !.NGRAM_SIZES = <<1>>,
                           !.STOP_WORDS = << <<"T","h","e">>, <<"a">> >> ] }

\* distinct two-letter words, none of them a stop word
BulkLetters == <<"b", "c", "d", "f", "g", "j", "k", "l", "m", "p", "q", "r">>

bulkWord(i) ==
  << BulkLetters[(i \div Len(BulkLetters)) + 1], BulkLetters[(i % Len(BulkLetters)) + 1] >>

\* a row that qualifies for both lists on its own (ctr = 0.01, convRate >= 0.2)
bulkRow(q, i) == Row(q, 500, 5, 1 + ((i * 7) % 13), 1 + ((i * 3) % 5), 0)

BulkSingleRows == [ i \in 1..BulkSingles |-> bulkRow(bulkWord(i), i) ]

BulkPairRows ==
  [ i \in 1..BulkPairs |-> bulkRow(bulkWord(i) \o <<SPACE>> \o bulkWord(i + 1), i) ]

-----------------------------------------------------------------------------
(* main *)

InitCommon ==
  /\ queryData = <<>>
  /\ ngramResults = <<>>
  /\ sizeIdx = 1
  /\ ngrams = <<>>
  /\ recIdx = 1
  /\ keywords = <<>>
  /\ negatives = <<>>
  /\ recommendations = [keywords |-> <<>>, negatives |-> <<>>]
  /\ pc = "start"

Init ==
  /\ \/ CONFIG \in Configs \cup EditedConfigs /\ rows \in SeqsUpTo(Rows, MaxRows)
     \/ /\ CONFIG = [DefaultConfig EXCEPT !.NGRAM_SIZES = <<1>>]
        /\ rows = BulkSingleRows
     \/ /\ CONFIG \in { [DefaultConfig EXCEPT !.NGRAM_SIZES = sizes] :
                          sizes \in { <<1, 2>>, <<2, 1>> } }
        /\ rows = BulkPairRows
  /\ InitCommon
  /\ monitor = MonitorIdle
  /\ miner = MinerIdle

\* var queryData = getSearchQueryData(); if (queryData.length === 0) return;
MainNoData ==
  /\ pc = "start"
  /\ getSearchQueryData(rows) = <<>>
  /\ queryData' = getSearchQueryData(rows)
  /\ pc' = "returned"
  /\ UNCHANGED <<CONFIG, rows, ngramResults, sizeIdx, ngrams, recIdx,
                 keywords, negatives, recommendations>>
  /\ UNCHANGED <<monitor, miner>>

\* var queryData = getSearchQueryData(); var ngramResults = {};
MainGetData ==
  /\ pc = "start"
  /\ getSearchQueryData(rows) # <<>>
  /\ queryData' = getSearchQueryData(rows)
  /\ ngramResults' = <<>>
  /\ pc' = "analyze"
  /\ UNCHANGED <<CONFIG, rows, sizeIdx, ngrams, recIdx,
                 keywords, negatives, recommendations>>
  /\ UNCHANGED <<monitor, miner>>

\* analyzeNgrams: one call of the queryData.forEach callback
AnalyzeQuery ==
  /\ pc = "analyze"
  /\ sizeIdx <= Len(CONFIG.NGRAM_SIZES)
  /\ recIdx <= Len(queryData)
  /\ ngrams' = foldQuery(ngrams, queryData[recIdx], CONFIG.NGRAM_SIZES[sizeIdx], CONFIG)
  /\ recIdx' = recIdx + 1
  /\ UNCHANGED <<CONFIG, rows, queryData, ngramResults, sizeIdx,
                 keywords, negatives, recommendations, pc>>
  /\ UNCHANGED <<monitor, miner>>

\* analyzeNgrams: the derived metrics and the return;
\* main: ngramResults[size] = analyzeNgrams(queryData, size)
AnalyzeReturn ==
  /\ pc = "analyze"
  /\ sizeIdx <= Len(CONFIG.NGRAM_SIZES)
  /\ recIdx > Len(queryData)
  /\ LET size == CONFIG.NGRAM_SIZES[sizeIdx]
     IN ngramResults' =
          [ s \in DOMAIN ngramResults \cup {size} |->
              IF s = size THEN deriveMetrics(ngrams) ELSE ngramResults[s] ]
  /\ sizeIdx' = sizeIdx + 1
  /\ ngrams' = <<>>
  /\ recIdx' = 1
  /\ UNCHANGED <<CONFIG, rows, queryData, keywords, negatives, recommendations, pc>>
  /\ UNCHANGED <<monitor, miner>>

\* generateRecommendations sorting the maps themselves before it reads them
GenerateRecommendationsInPlace ==
  /\ pc = "analyze"
  /\ sizeIdx > Len(CONFIG.NGRAM_SIZES)
  /\ LET lists == sortedLists(ngramResults, CONFIG)
     IN /\ keywords' = lists.keywords
        /\ negatives' = lists.negatives
        /\ recommendations' = generateRecommendations(ngramResults, CONFIG)
  /\ ngramResults' = [ n \in DOMAIN ngramResults |-> sortDesc(ngramResults[n], "cost") ]
  /\ pc' = "done"
  /\ UNCHANGED <<CONFIG, rows, queryData, sizeIdx, ngrams, recIdx>>
  /\ UNCHANGED <<monitor, miner>>

\* var recommendations = generateRecommendations(ngramResults);
GenerateRecommendations ==
  /\ pc = "analyze"
  /\ sizeIdx > Len(CONFIG.NGRAM_SIZES)
  /\ LET lists == sortedLists(ngramResults, CONFIG)
     IN /\ keywords' = lists.keywords
        /\ negatives' = lists.negatives
        /\ recommendations' = generateRecommendations(ngramResults, CONFIG)
  /\ pc' = "done"
  /\ UNCHANGED <<CONFIG, rows, queryData, ngramResults, sizeIdx, ngrams, recIdx>>
  /\ UNCHANGED <<monitor, miner>>

Next ==
  \/ MainNoData
  \/ MainGetData
  \/ AnalyzeQuery
  \/ AnalyzeReturn
  \/ GenerateRecommendations

Spec == Init /\ [][Next]_vars

-----------------------------------------------------------------------------
(* Properties of the aggregation *)

\* sum of f[lo] .. f[hi]
RECURSIVE SumRange(_, _, _)
SumRange(f, lo, hi) ==
  IF lo > hi THEN 0
  ELSE IF lo = hi THEN f[lo]
  ELSE LET mid == (lo + hi) \div 2
       IN SumRange(f, lo, mid) + SumRange(f, mid + 1, hi)

\* the token sequences of the query records in queryData
Tokens == [ k \in DOMAIN queryData |-> words(queryData[k], CONFIG) ]

\* the number of window positions of a token sequence whose n tokens,
\* joined by single spaces, are the text g
WindowCount(ws, g, n) ==
  Cardinality({ p \in 1..(Len(ws) - n + 1) : join(SubSeq(ws, p, p + n - 1)) = g })

\* for each query record, the number of its windows of size n that read g
Occurrences(g, n) == [ k \in DOMAIN queryData |-> WindowCount(Tokens[k], g, n) ]

\* the sum over the query records of occurrences times a field of the record
WeightedSum(occ, field) ==
  SumRange([ k \in DOMAIN queryData |-> occ[k] * queryData[k][field] ], 1, Len(queryData))

\* the number of query records with at least one window that reads g
DistinctQueries(occ) == Cardinality({ k \in DOMAIN occ : occ[k] > 0 })

\* C1: when the run is over, every n-gram text produced by the sliding
\* window of some query record has an aggregate in the map of its size, and
\* every aggregate's query count is the number of (record, window position)
\* pairs that read its text, and each of its five sums is the sum over those
\* pairs of the record's value in full (repeats inside one query included).
C1_OccurrenceTotals ==
  pc = "done" =>
    \A n \in DOMAIN ngramResults :
      /\ \A k \in DOMAIN queryData :
           \A p \in 1..(Len(Tokens[k]) - n + 1) :
             \E i \in DOMAIN ngramResults[n] :
               ngramResults[n][i].ngram = join(SubSeq(Tokens[k], p, p + n - 1))
      /\ \A i \in DOMAIN ngramResults[n] :
           LET ng  == ngramResults[n][i]
               occ == Occurrences(ng.ngram, n)
           IN /\ ng.queries = SumRange(occ, 1, Len(occ))
              /\ ng.impressions = WeightedSum(occ, "impressions")
              /\ ng.clicks = WeightedSum(occ, "clicks")
              /\ ng.cost = WeightedSum(occ, "cost")
              /\ ng.conversions = WeightedSum(occ, "conversions")
              /\ ng.conversionValue = WeightedSum(occ, "conversionValue")

\* an aggregate fed by a repeat inside one query record and by another record
C1_Witness ==
  /\ pc = "done"
  /\ \E n \in DOMAIN ngramResults :
       \E i \in DOMAIN ngramResults[n] :
         LET occ == Occurrences(ngramResults[n][i].ngram, n)
         IN /\ \E k \in DOMAIN occ : occ[k] >= 2
            /\ DistinctQueries(occ) >= 2
            /\ ngramResults[n][i].queries >= 3

\* C2 as stated: the query count of every aggregate is the number of distinct
\* query records that contributed to it.
C2_DistinctQueryCount ==
  pc = "done" =>
    \A n \in DOMAIN ngramResults :
      \A i \in DOMAIN ngramResults[n] :
        ngramResults[n][i].queries =
          DistinctQueries(Occurrences(ngramResults[n][i].ngram, n))

\* C2 amended: the query count of every aggregate is the number of
\* occurrences of its n-gram over all query records; it is at least the
\* number of distinct query records that contributed to it, and equals
\* that number exactly when no record contains the n-gram more than once.
C2_CountAtLeastDistinct ==
  pc = "done" =>
    \A n \in DOMAIN ngramResults :
      \A i \in DOMAIN ngramResults[n] :
        LET ng  == ngramResults[n][i]
            occ == Occurrences(ng.ngram, n)
        IN /\ ng.queries = SumRange(occ, 1, Len(occ))
           /\ ng.queries >= DistinctQueries(occ)
           /\ DistinctQueries(occ) >= 1
           /\ (ng.queries = DistinctQueries(occ)) <=> (\A k \in DOMAIN occ : occ[k] <= 1)

\* an aggregate whose query count exceeds its number of contributing records
C2_Witness ==
  /\ pc = "done"
  /\ \E n \in DOMAIN ngramResults :
       \E i \in DOMAIN ngramResults[n] :
         ngramResults[n][i].queries >
           DistinctQueries(Occurrences(ngramResults[n][i].ngram, n))

-----------------------------------------------------------------------------
(* Properties of the classification *)

\* the aggregates classified by the run: the pairs <<size, aggregate>> for
\* the sizes of CONFIG.NGRAM_SIZES
Classified ==
  UNION { { <<n, ng>> : ng \in Range(ngramResults[n]) } :
            n \in Range(CONFIG.NGRAM_SIZES) \cap DOMAIN ngramResults }

\* list has an entry made from the aggregate ng of size n
Listed(list, n, ng) ==
  \E e \in Range(list) : e.ngram = ng.ngram /\ e.size = n

\* the conditions of the classification, on the metrics of an aggregate or
\* of a list entry
VolumeFloor(x)  == x.impressions >= CONFIG.MIN_IMPRESSIONS
ClickFloor(x)   == x.clicks >= CONFIG.MIN_CLICKS
CtrHigh(x)      == x.ctr.n * CONFIG.HIGH_CTR_THRESHOLD.d >= CONFIG.HIGH_CTR_THRESHOLD.n * x.ctr.d
ConvRateHigh(x) == x.convRate.n * CONFIG.HIGH_CONV_RATE.d >= CONFIG.HIGH_CONV_RATE.n * x.convRate.d
CtrLow(x)       == x.ctr.n * CONFIG.LOW_CTR_THRESHOLD.d <= CONFIG.LOW_CTR_THRESHOLD.n * x.ctr.d
CpaBreach(x)    ==
  /\ CONFIG.TARGET_CPA > 0
  /\ x.cpa.n > CONFIG.TARGET_CPA * CONFIG.HIGH_CPA_MULTIPLIER * x.cpa.d

\* C3: before truncation an aggregate is in the keyword-opportunity list iff
\* impressions >= minImpressions and clicks >= minClicks and (ctr >=
\* highCtrThreshold or convRate >= highConvRateThreshold), both rate
\* comparisons inclusive.
C3_OpportunityIff ==
  pc = "done" =>
    \A c \in Classified :
      Listed(keywords, c[1], c[2]) <=>
        /\ VolumeFloor(c[2])
        /\ ClickFloor(c[2])
        /\ (CtrHigh(c[2]) \/ ConvRateHigh(c[2]))

\* an opportunity whose only qualifying rate sits exactly on its threshold,
\* for the CTR and for the conversion rate
C3_Witness ==
  /\ pc = "done"
  /\ \E c \in Classified :
       /\ Listed(keywords, c[1], c[2])
       /\ c[2].ctr.n * CONFIG.HIGH_CTR_THRESHOLD.d = CONFIG.HIGH_CTR_THRESHOLD.n * c[2].ctr.d
       /\ ~ConvRateHigh(c[2])
  /\ \E c \in Classified :
       /\ Listed(keywords, c[1], c[2])
       /\ c[2].convRate.n * CONFIG.HIGH_CONV_RATE.d = CONFIG.HIGH_CONV_RATE.n * c[2].convRate.d
       /\ ~CtrHigh(c[2])

\* C4 as stated: before truncation an aggregate is in the negative-candidate
\* list iff impressions >= minImpressions and (ctr <= lowCtrThreshold or
\* (targetCpa > 0 and cpa > targetCpa * expensiveMultiplier)), with no
\* minimum click count.
C4_NegativeIffNoClickFloor ==
  pc = "done" =>
    \A c \in Classified :
      Listed(negatives, c[1], c[2]) <=>
        /\ VolumeFloor(c[2])
        /\ (CtrLow(c[2]) \/ CpaBreach(c[2]))

\* C4 amended: before truncation an aggregate is in the negative-candidate
\* list iff impressions >= minImpressions and clicks >= minClicks and (ctr <=
\* lowCtrThreshold or (targetCpa > 0 and cpa > targetCpa *
\* expensiveMultiplier)); the CTR comparison is inclusive and the CPA
\* comparison strict.
C4_NegativeIff ==
  pc = "done" =>
    \A c \in Classified :
      Listed(negatives, c[1], c[2]) <=>
        /\ VolumeFloor(c[2])
        /\ ClickFloor(c[2])
        /\ (CtrLow(c[2]) \/ CpaBreach(c[2]))

\* a negative candidate with the CTR exactly on the threshold and an
\* aggregate with a low CTR left out for its clicks alone
C4_Witness ==
  /\ pc = "done"
  /\ \E c \in Classified :
       /\ Listed(negatives, c[1], c[2])
       /\ c[2].ctr.n * CONFIG.LOW_CTR_THRESHOLD.d = CONFIG.LOW_CTR_THRESHOLD.n * c[2].ctr.d
  /\ \E c \in Classified :
       /\ ~Listed(negatives, c[1], c[2])
       /\ VolumeFloor(c[2]) /\ ~ClickFloor(c[2]) /\ CtrLow(c[2])

\* C5: no aggregate with impressions < minImpressions is in either list,
\* and no entry of either list has impressions < minImpressions.
C5_VolumeFloor ==
  pc = "done" =>
    /\ \A c \in Classified :
         c[2].impressions < CONFIG.MIN_IMPRESSIONS =>
           /\ ~Listed(keywords, c[1], c[2])
           /\ ~Listed(negatives, c[1], c[2])
    /\ \A e \in Range(keywords) \cup Range(negatives) \cup
                Range(recommendations.keywords) \cup Range(recommendations.negatives) :
         e.impressions >= CONFIG.MIN_IMPRESSIONS

\* an aggregate one impression under the floor that has the clicks and the
\* rates of an opportunity
C5_Witness ==
  /\ pc = "done"
  /\ \E c \in Classified :
       /\ c[2].impressions = CONFIG.MIN_IMPRESSIONS - 1
       /\ ClickFloor(c[2])
       /\ CtrHigh(c[2]) /\ ConvRateHigh(c[2])
       /\ ~Listed(keywords, c[1], c[2])

\* C6: a keyword opportunity has reason "High conversion rate" exactly when
\* its convRate >= highConvRateThreshold and reason "High CTR" exactly when
\* only its CTR qualifies.
C6_KeywordReason ==
  pc = "done" =>
    \A e \in Range(keywords) \cup Range(recommendations.keywords) :
      /\ e.reason = "High conversion rate" <=> ConvRateHigh(e)
      /\ e.reason = "High CTR" <=> (CtrHigh(e) /\ ~ConvRateHigh(e))

\* a returned opportunity for which both rates qualify and one for which
\* only the CTR does
C6_Witness ==
  /\ pc = "done"
  /\ \E e \in Range(recommendations.keywords) :
       CtrHigh(e) /\ ConvRateHigh(e) /\ e.reason = "High conversion rate"
  /\ \E e \in Range(recommendations.keywords) :
       CtrHigh(e) /\ ~ConvRateHigh(e) /\ e.reason = "High CTR"

\* C7: a negative candidate has reason "Low CTR" exactly when its ctr <=
\* lowCtrThreshold and reason "High CPA" exactly when the CTR condition is
\* false and targetCpa > 0 and cpa > targetCpa * expensiveMultiplier.
C7_NegativeReason ==
  pc = "done" =>
    \A e \in Range(negatives) \cup Range(recommendations.negatives) :
      /\ e.reason = "Low CTR" <=> CtrLow(e)
      /\ e.reason = "High CPA" <=> (~CtrLow(e) /\ CpaBreach(e))

\* a returned negative candidate for which both conditions hold and one for
\* which only the CPA condition does
C7_Witness ==
  /\ pc = "done"
  /\ \E e \in Range(recommendations.negatives) :
       CtrLow(e) /\ CpaBreach(e) /\ e.reason = "Low CTR"
  /\ \E e \in Range(recommendations.negatives) :
       ~CtrLow(e) /\ CpaBreach(e) /\ e.reason = "High CPA"

-----------------------------------------------------------------------------
(* Properties of the ranking *)

QualifiesKeyword(ng) ==
  VolumeFloor(ng) /\ ClickFloor(ng) /\ (CtrHigh(ng) \/ ConvRateHigh(ng))

QualifiesNegative(ng) ==
  VolumeFloor(ng) /\ ClickFloor(ng) /\ (CtrLow(ng) \/ CpaBreach(ng))

\* the number N of qualifying aggregates, counted once per position of
\* CONFIG.NGRAM_SIZES
QualifyingCount(Qualifies(_)) ==
  SumRange([ s \in DOMAIN CONFIG.NGRAM_SIZES |->
               Cardinality({ i \in DOMAIN ngramResults[CONFIG.NGRAM_SIZES[s]] :
                               Qualifies(ngramResults[CONFIG.NGRAM_SIZES[s]][i]) }) ],
           1, Len(CONFIG.NGRAM_SIZES))

\* C8: in the returned lists conversions are non-increasing from the first
\* to the last keyword opportunity and cost is non-increasing from the first
\* to the last negative candidate.
C8_SortedByImpact ==
  pc = "done" =>
    /\ \A i \in 1..(Len(recommendations.keywords) - 1) :
         recommendations.keywords[i].conversions >=
           recommendations.keywords[i + 1].conversions
    /\ \A i \in 1..(Len(recommendations.negatives) - 1) :
         recommendations.negatives[i].cost >= recommendations.negatives[i + 1].cost

\* both returned lists hold entries with different sort keys
C8_Witness ==
  /\ pc = "done"
  /\ \E i, j \in DOMAIN recommendations.keywords :
       recommendations.keywords[i].conversions > recommendations.keywords[j].conversions
  /\ \E i, j \in DOMAIN recommendations.negatives :
       recommendations.negatives[i].cost > recommendations.negatives[j].cost

\* returned is the first min(100, N) entries of sorted, its entries are
\* qualifying aggregates, none more often than its size is configured, and
\* no qualifying aggregate left out has a larger sort key than an entry
FirstOfSorted(returned, sorted, Qualifies(_), field) ==
  /\ Len(returned) <= MaxResults
  /\ Len(returned) = Min(MaxResults, QualifyingCount(Qualifies))
  /\ returned = SubSeq(sorted, 1, Len(returned))
  /\ \A k \in DOMAIN returned :
       /\ \E c \in Classified :
            /\ Qualifies(c[2])
            /\ returned[k].ngram = c[2].ngram
            /\ returned[k].size = c[1]
            /\ returned[k][field] = c[2][field]
       /\ Cardinality({ m \in DOMAIN returned :
                          /\ returned[m].ngram = returned[k].ngram
                          /\ returned[m].size = returned[k].size })
            <= Cardinality({ s \in DOMAIN CONFIG.NGRAM_SIZES :
                               CONFIG.NGRAM_SIZES[s] = returned[k].size })
  /\ \A c \in Classified :
       (Qualifies(c[2]) /\ ~Listed(returned, c[1], c[2])) =>
         \A e \in Range(returned) : e[field] >= c[2][field]

GlobalAcrossSizes(returned, Qualifies(_), field) ==
  /\ Len(returned) <= MaxResults
  /\ \A i, j \in DOMAIN returned :
       (i < j /\ returned[i].size # returned[j].size) =>
         returned[i][field] >= returned[j][field]
  /\ \A c \in Classified :
       (Qualifies(c[2]) /\ ~Listed(returned, c[1], c[2])) =>
         \A e \in Range(returned) : e.size # c[1] => e[field] >= c[2][field]

\* C10: with several configured sizes the classification runs once over the
\* aggregates of all sizes: each returned list has at most 100 entries in
\* total and is ordered across the sizes, not per size.
C10_MergedAcrossSizes ==
  (pc = "done" /\ Len(CONFIG.NGRAM_SIZES) > 1) =>
    /\ GlobalAcrossSizes(recommendations.keywords, QualifiesKeyword, "conversions")
    /\ GlobalAcrossSizes(recommendations.negatives, QualifiesNegative, "cost")

\* the cap binds on the merged list: 100 keyword opportunities are returned,
\* of two sizes and interleaved, and qualifying aggregates of two sizes are
\* left out
C10_Witness ==
  /\ pc = "done"
  /\ Len(recommendations.keywords) = MaxResults
  /\ \E i, j, k \in DOMAIN recommendations.keywords :
       /\ i < j /\ j < k
       /\ recommendations.keywords[i].size # recommendations.keywords[j].size
       /\ recommendations.keywords[j].size # recommendations.keywords[k].size
  /\ \E c, d \in Classified :
       /\ c[1] # d[1]
       /\ QualifiesKeyword(c[2]) /\ ~Listed(recommendations.keywords, c[1], c[2])
       /\ QualifiesKeyword(d[2]) /\ ~Listed(recommendations.keywords, d[1], d[2])

-----------------------------------------------------------------------------
(* Properties of the derived metrics *)

\* the quotient q is a number (its denominator is not 0), is not negative,
\* is 0 when den is 0 and is num / den otherwise
IsRate(q, num, den) ==
  /\ q.d > 0
  /\ q.n >= 0
  /\ den = 0 => q.n = 0
  /\ den # 0 => q.n * den = num * q.d

\* C11: every aggregate of a returned map has its five derived metrics
\* computed from its own sums: ctr = clicks / impressions, cpc = cost /
\* clicks, convRate = conversions / clicks, cpa = cost / conversions, roas =
\* conversionValue / cost; each is a number, is 0 when its denominator is 0,
\* and is never negative; and those sums are the final ones, taken over all
\* the query records.
C11_DerivedMetrics ==
  \A n \in DOMAIN ngramResults :
    \A i \in DOMAIN ngramResults[n] :
      LET ng == ngramResults[n][i]
      IN /\ IsRate(ng.ctr, ng.clicks, ng.impressions)
         /\ IsRate(ng.cpc, ng.cost, ng.clicks)
         /\ IsRate(ng.convRate, ng.conversions, ng.clicks)
         /\ IsRate(ng.cpa, ng.cost, ng.conversions)
         /\ IsRate(ng.roas, ng.conversionValue, ng.cost)
         /\ pc = "done" =>
              /\ ng.impressions = WeightedSum(Occurrences(ng.ngram, n), "impressions")
              /\ ng.clicks = WeightedSum(Occurrences(ng.ngram, n), "clicks")
              /\ ng.cost = WeightedSum(Occurrences(ng.ngram, n), "cost")
              /\ ng.conversions = WeightedSum(Occurrences(ng.ngram, n), "conversions")
              /\ ng.conversionValue = WeightedSum(Occurrences(ng.ngram, n), "conversionValue")

\* a returned map holds an aggregate without clicks, cost or conversions,
\* and one fed by two query records whose five denominators and rates are
\* all positive
C11_Witness ==
  \E n \in DOMAIN ngramResults :
    /\ \E i \in DOMAIN ngramResults[n] :
         LET ng == ngramResults[n][i]
         IN /\ ng.clicks = 0 /\ ng.cost = 0 /\ ng.conversions = 0
            /\ ng.cpc.n = 0 /\ ng.convRate.n = 0 /\ ng.cpa.n = 0 /\ ng.roas.n = 0
    /\ \E i \in DOMAIN ngramResults[n] :
         LET ng == ngramResults[n][i]
         IN /\ DistinctQueries(Occurrences(ng.ngram, n)) = 2
            /\ ng.ctr.n > 0 /\ ng.cpc.n > 0 /\ ng.convRate.n > 0
            /\ ng.cpa.n > 0 /\ ng.roas.n > 0

-----------------------------------------------------------------------------
(* Properties of the aggregation as a function of the record sequence *)

\* the record sequence started at its record c + 1 and wrapped around, and
\* the record sequence read backwards
Rotation(data, c) == [ k \in 1..Len(data) |-> data[((k - 1 + c) % Len(data)) + 1] ]
Reverse(data) == [ k \in 1..Len(data) |-> data[Len(data) + 1 - k] ]

\* the rotations of a record sequence and their reversals: every permutation
\* of a sequence of up to three records, and 2 * Len(data) permutations of a
\* longer one
Reorderings(data) ==
  { Rotation(data, c) : c \in 0..(Len(data) - 1) } \cup
  { Reverse(Rotation(data, c)) : c \in 0..(Len(data) - 1) }

\* two maps have the same keys and, under each key, the same aggregate (the
\* six sums and the five derived metrics)
SameMap(a, b) == Len(a) = Len(b) /\ Range(a) = Range(b)

-----------------------------------------------------------------------------
(* Properties of the run on edited configurations and on empty reports *)

\* the configuration is one the specification calls invalid: no size, a size
\* that is not positive, or a negative minimum of impressions or of clicks
InvalidConfig(cfg) ==
  \/ cfg.NGRAM_SIZES = <<>>
  \/ \E s \in DOMAIN cfg.NGRAM_SIZES : cfg.NGRAM_SIZES[s] <= 0
  \/ cfg.MIN_IMPRESSIONS < 0
  \/ cfg.MIN_CLICKS < 0

\* C13 as stated: under an invalid configuration the run stops on the
\* configuration before any aggregation: no query record is ever folded into
\* an aggregate, no aggregate map is produced and the run does not reach the
\* end where the recommendation lists are produced.
C13_InvalidConfigRejected ==
  InvalidConfig(CONFIG) =>
    /\ ngrams = <<>>
    /\ ngramResults = <<>>
    /\ pc # "done"

\* the maps main would hand to generateRecommendations for a record sequence
analyzedSizes(data, cfg) ==
  [ size \in Range(cfg.NGRAM_SIZES) |-> analyzeNgrams(data, size, cfg) ]

NoRecommendations == [ keywords |-> <<>>, negatives |-> <<>> ]

\* C14: on a report without rows the run has no query record, creates no
\* aggregate (every map it has, for a size or in progress, is empty) and
\* lists no recommendation, at every step and in the state where it ends;
\* and analyzeNgrams on the empty record sequence is the empty map for every
\* configured size, from which generateRecommendations returns two empty
\* lists. The run has no failing step: it ends by returning.
C14_EmptyReport ==
  rows = <<>> =>
    /\ queryData = <<>>
    /\ ngrams = <<>>
    /\ \A n \in DOMAIN ngramResults : ngramResults[n] = <<>>
    /\ keywords = <<>> /\ negatives = <<>>
    /\ recommendations = NoRecommendations
    /\ pc # "start" =>
         /\ \A size \in Range(CONFIG.NGRAM_SIZES) :
              analyzeNgrams(getSearchQueryData(rows), size, CONFIG) = <<>>
         /\ generateRecommendations(analyzedSizes(getSearchQueryData(rows), CONFIG), CONFIG)
              = NoRecommendations

\* the run on a report without rows is over, under a configuration with
\* several sizes
C14_Witness ==
  /\ rows = <<>>
  /\ pc = "returned"
  /\ Len(CONFIG.NGRAM_SIZES) > 1

-----------------------------------------------------------------------------
(* Properties of the tokenizer *)

\* the pieces of the text of a report row, lower-cased and split on runs of
\* whitespace, that have more than one character and are not among the
\* configured stop words, in order
KeptPieces(text, stopList) ==
  SelectSeq(split(toLowerCase(text)),
            LAMBDA piece : Len(piece) > 1 /\ piece \notin Range(stopList))

\* C15 as stated: the tokens of every query record are exactly the pieces of
\* its lower-cased text, split on runs of whitespace, that are longer than
\* one character and are not in the stop-word set, in order; a text that is
\* empty or only whitespace has no token; the texts of two rows that differ
\* only in letter case have the same tokens.
C15_Tokens ==
  /\ \A k \in DOMAIN queryData :
       /\ Tokens[k] = KeptPieces(rows[k].Query, CONFIG.STOP_WORDS)
       /\ (\A c \in DOMAIN rows[k].Query : IsWhitespace(rows[k].Query[c])) => Tokens[k] = <<>>
  /\ \A k, l \in DOMAIN queryData :
       toLowerCase(rows[k].Query) = toLowerCase(rows[l].Query) => Tokens[k] = Tokens[l]

\* C16 as stated: a configured stop word removes the tokens that equal it
\* whatever the letter case of the configured word: no token of a query
\* record is the lower-case form of a word of CONFIG.STOP_WORDS.
C16_StopWordsAnyCase ==
  \A k \in DOMAIN queryData :
    \A i \in DOMAIN Tokens[k] :
      \A w \in DOMAIN CONFIG.STOP_WORDS :
        Tokens[k][i] # toLowerCase(CONFIG.STOP_WORDS[w])

-----------------------------------------------------------------------------
(* Properties of the sliding window *)

\* the text of the window of n tokens that starts at the token p
WindowText(ws, p, n) == join(SubSeq(ws, p, p + n - 1))

\* the first position at which the window of n tokens reads g
FirstWindow(ws, g, n) ==
  CHOOSE p \in 1..(Len(ws) - n + 1) :
    /\ WindowText(ws, p, n) = g
    /\ \A r \in 1..(p - 1) : WindowText(ws, r, n) # g

\* C17: for the query record just folded, of L tokens, and the size n >= 1
\* in progress, the loop of analyzeNgrams produces exactly the L - n + 1
\* windows of n consecutive tokens joined by single spaces, from left to
\* right and without removing repeats, and none when L < n: folding the
\* record into an empty map counts L - n + 1 occurrences in all, gives each
\* window text as many occurrences as there are positions that read it,
\* creates no other key, and creates the keys in the order of their first
\* position; the map in progress holds each of these occurrences.
C17_SlidingWindows ==
  (/\ pc = "analyze"
   /\ sizeIdx <= Len(CONFIG.NGRAM_SIZES)
   /\ recIdx > 1
   /\ CONFIG.NGRAM_SIZES[sizeIdx] >= 1) =>
    LET n  == CONFIG.NGRAM_SIZES[sizeIdx]
        ws == Tokens[recIdx - 1]
        W  == IF Len(ws) < n THEN 0 ELSE Len(ws) - n + 1
        m  == foldQuery(<<>>, queryData[recIdx - 1], n, CONFIG)
    IN /\ SumRange([ i \in DOMAIN m |-> m[i].queries ], 1, Len(m)) = W
       /\ W = 0 => m = <<>>
       /\ \A p \in 1..W :
            \E i \in DOMAIN m : m[i].ngram = WindowText(ws, p, n)
       /\ \A i \in DOMAIN m :
            /\ \E p \in 1..W : m[i].ngram = WindowText(ws, p, n)
            /\ m[i].queries = WindowCount(ws, m[i].ngram, n)
            /\ Len(split(m[i].ngram)) = n
            /\ \E j \in DOMAIN ngrams :
                 ngrams[j].ngram = m[i].ngram /\ ngrams[j].queries >= m[i].queries
       /\ \A i, j \in DOMAIN m :
            i < j => FirstWindow(ws, m[i].ngram, n) < FirstWindow(ws, m[j].ngram, n)

\* a record of four tokens has just been folded at size 2: three windows, of
\* which the first and the last read the same
C17_Witness ==
  /\ pc = "analyze"
  /\ sizeIdx <= Len(CONFIG.NGRAM_SIZES)
  /\ recIdx > 1
  /\ CONFIG.NGRAM_SIZES[sizeIdx] = 2
  /\ Len(Tokens[recIdx - 1]) = 4
  /\ WindowText(Tokens[recIdx - 1], 1, 2) = WindowText(Tokens[recIdx - 1], 3, 2)
  /\ \E j \in DOMAIN ngrams :
       ngrams[j].ngram = WindowText(Tokens[recIdx - 1], 1, 2) /\ ngrams[j].queries >= 2

-----------------------------------------------------------------------------
(* Properties of the negative candidates *)

\* C18: when targetCpa is 0 the CPA condition is switched off: no negative
\* candidate, before or after truncation, has the reason "High CPA", every
\* negative candidate has ctr <= lowCtrThreshold, and no aggregate whose CTR
\* is above the threshold is listed as a negative candidate.
C18_NoTargetNoHighCpa ==
  (pc = "done" /\ CONFIG.TARGET_CPA = 0) =>
    /\ \A e \in Range(negatives) \cup Range(recommendations.negatives) :
         e.reason # "High CPA" /\ e.reason = "Low CTR" /\ CtrLow(e)
    /\ \A c \in Classified :
         ~CtrLow(c[2]) => ~Listed(negatives, c[1], c[2])

\* with targetCpa = 0, an aggregate over both floors with conversions, a
\* positive CPA and a CTR above the low threshold is not a negative
\* candidate, next to a returned negative candidate
C18_Witness ==
  /\ pc = "done"
  /\ CONFIG.TARGET_CPA = 0
  /\ recommendations.negatives # <<>>
  /\ \E c \in Classified :
       /\ VolumeFloor(c[2]) /\ ClickFloor(c[2])
       /\ c[2].conversions > 0 /\ c[2].cpa.n > 0
       /\ ~CtrLow(c[2])
       /\ ~Listed(negatives, c[1], c[2])

\* C19: the two classifications do not exclude each other: an aggregate is
\* in both lists (before truncation) exactly when it satisfies the
\* opportunity condition and the negative-candidate condition; and when
\* nothing was cut off, it is in both returned lists under the same
\* condition.
C19_BothLists ==
  pc = "done" =>
    \A c \in Classified :
      /\ (Listed(keywords, c[1], c[2]) /\ Listed(negatives, c[1], c[2]))
           <=> (QualifiesKeyword(c[2]) /\ QualifiesNegative(c[2]))
      /\ (Len(keywords) <= MaxResults /\ Len(negatives) <= MaxResults) =>
           ((/\ Listed(recommendations.keywords, c[1], c[2])
             /\ Listed(recommendations.negatives, c[1], c[2]))
              <=> (QualifiesKeyword(c[2]) /\ QualifiesNegative(c[2])))

\* one aggregate is returned in both lists, for a qualifying conversion rate
\* with a low CTR, and another is in the first list alone
C19_Witness ==
  /\ pc = "done"
  /\ \E c \in Classified :
       /\ ConvRateHigh(c[2]) /\ CtrLow(c[2])
       /\ Listed(recommendations.keywords, c[1], c[2])
       /\ Listed(recommendations.negatives, c[1], c[2])
  /\ \E c \in Classified :
       /\ Listed(recommendations.keywords, c[1], c[2])
       /\ ~Listed(recommendations.negatives, c[1], c[2])

-----------------------------------------------------------------------------
(* Properties of the aggregation over a partition of the records *)

\* the records of data at the positions of keep, in their order
Pick(data, keep) ==
  LET idx == SelectSeq([ k \in 1..Len(data) |-> k ], LAMBDA k : k \in keep)
  IN [ j \in DOMAIN idx |-> data[idx[j]] ]

\* sets of positions that split 1..len in two: the prefixes, and the
\* positions of one residue modulo 2 or 3; with their complements these are
\* all the splits of up to three records
Splits(len) ==
  { 1..c : c \in 0..len } \cup
  { { k \in 1..len : k % m = r } : m \in 2..3, r \in 0..2 }

\* the merge of two aggregates of one key: the sums and the query counts
\* added, the rates derived from the added sums
MergeAggregates(x, y) ==
  derive([ ngram |-> x.ngram, queries |-> x.queries + y.queries,
           impressions |-> x.impressions + y.impressions,
           clicks |-> x.clicks + y.clicks,
           cost |-> x.cost + y.cost,
           conversions |-> x.conversions + y.conversions,
           conversionValue |-> x.conversionValue + y.conversionValue ])

\* the merge of two maps: matching keys merged, the other keys taken over
Merge(a, b) ==
  [ i \in DOMAIN a |->
      IF HasOwn(b, a[i].ngram)
        THEN MergeAggregates(a[i], b[IndexOf(b, a[i].ngram)])
        ELSE a[i] ]
    \o SelectSeq(b, LAMBDA y : ~HasOwn(a, y.ngram))

-----------------------------------------------------------------------------
(* Daily budget monitor (src/scripts/budget-pacing/daily-budget-monitor.js) *)
(* The state of a run is the record monitor: the script's CONFIG, the hour  *)
(* of the account's time zone, the campaigns the selector returns, and the  *)
(* locals of main.  Amounts are whole currency units, ratios are quotients  *)
(* compared exactly; the text of an alert message is left out.              *)

\* q < t for quotients with positive denominators, and the product q * t
Lt(q, t) == q.n * t.d < t.n * q.d
Times(q, t) == [ n |-> q.n * t.n, d |-> q.d * t.d ]

\* campaign.getBudget(): no budget, or <<budget>>
NoBudget == <<>>
HoursPerDay == 24
Midday == 12

\* var CONFIG of the monitor
MonitorConfig ==
  [ SPREADSHEET_URL      |-> "YOUR_SPREADSHEET_URL_HERE",
    EMAIL_RECIPIENTS     |-> "your-email@example.com",
    OVERSPEND_THRESHOLD  |-> [n |-> 110, d |-> 100],
    UNDERSPEND_THRESHOLD |-> [n |-> 50, d |-> 100],
    NEAR_LIMIT_THRESHOLD |-> [n |-> 95, d |-> 100],
    MIN_BUDGET_AMOUNT    |-> 10 ]

\* var dailyBudget = budget.getAmount();
dailyBudget(campaign) == campaign.budget[1]

\* var spendRatio = dailyBudget > 0 ? todaySpend / dailyBudget : 0
spendRatio(campaign) ==
  Quotient(dailyBudget(campaign) > 0, campaign.todaySpend, dailyBudget(campaign))

\* var expectedRatio = currentHour / 24
expectedRatio(currentHour) == [ n |-> currentHour, d |-> HoursPerDay ]

\* if (!budget) continue; if (dailyBudget < CONFIG.MIN_BUDGET_AMOUNT) continue;
skipped(campaign, cfg) ==
  IF campaign.budget = NoBudget THEN TRUE
  ELSE dailyBudget(campaign) < cfg.MIN_BUDGET_AMOUNT

\* currentHour >= 12 && spendRatio < CONFIG.UNDERSPEND_THRESHOLD * expectedRatio
underspend(campaign, currentHour, cfg) ==
  /\ currentHour >= Midday
  /\ Lt(spendRatio(campaign), Times(cfg.UNDERSPEND_THRESHOLD, expectedRatio(currentHour)))

\* the if / else if / else if chain that sets row.status
monitorStatus(campaign, currentHour, cfg) ==
  IF Geq(spendRatio(campaign), cfg.OVERSPEND_THRESHOLD) THEN "OVERSPEND"
  ELSE IF Geq(spendRatio(campaign), cfg.NEAR_LIMIT_THRESHOLD) THEN "NEAR_LIMIT"
  ELSE IF underspend(campaign, currentHour, cfg) THEN "UNDERSPEND"
  ELSE "OK"

\* var row = { ... }
monitorRow(campaign, currentHour, cfg) ==
  [ campaignName  |-> campaign.name,
    dailyBudget   |-> dailyBudget(campaign),
    todaySpend    |-> campaign.todaySpend,
    spendRatio    |-> spendRatio(campaign),
    expectedRatio |-> expectedRatio(currentHour),
    status        |-> monitorStatus(campaign, currentHour, cfg) ]

\* alerts.push({ severity: ..., campaign: campaignName, message: ... })
monitorAlert(campaign, status) ==
  [ severity |-> IF status = "NEAR_LIMIT" THEN "info" ELSE "warning",
    campaign |-> campaign.name,
    kind     |-> status ]

\* the enabled campaigns of an account: name, daily budget and cost of today
Campaign(name, budget, todaySpend) ==
  [ name |-> name, budget |-> budget, todaySpend |-> todaySpend ]

Campaigns ==
  { Campaign("Idle", <<100>>, 0),
    Campaign("Quarter", <<100>>, 24),
    Campaign("QuarterFull", <<100>>, 25),
    Campaign("Slow", <<100>>, 40),
    Campaign("Half", <<100>>, 50),
    Campaign("Near", <<100>>, 95),
    Campaign("Over", <<100>>, 110),
    Campaign("Small", <<5>>, 1),
    Campaign("Shared", NoBudget, 30) }

Hours == { 0, 11, 12, 16, 23 }

MaxCampaigns == 2

MonitorInit ==
  /\ \E hour \in Hours, campaigns \in SeqsUpTo(Campaigns, MaxCampaigns), url \in BOOLEAN :
       monitor = [ pc |-> "start",
                   CONFIG |-> [ MonitorConfig EXCEPT !.SPREADSHEET_URL =
                                  IF url THEN "https://docs.google.com/spreadsheets/d/1"
                                  ELSE @ ],
                   hour |-> hour,
                   campaigns |-> campaigns,
                   currentHour |-> 0,
                   next |-> 1,
                   alerts |-> <<>>,
                   campaignData |-> <<>>,
                   sheet |-> <<>>,
                   emails |-> 0 ]
  /\ CONFIG = DefaultConfig
  /\ rows = <<>>
  /\ InitCommon
  /\ miner = MinerIdle

\* main up to var campaigns = campaignSelector.get();
MonitorStart ==
  /\ monitor.pc = "start"
  /\ monitor' = [ monitor EXCEPT !.pc = "campaigns", !.currentHour = monitor.hour ]
  /\ UNCHANGED <<CONFIG, rows, queryData, ngramResults, sizeIdx, ngrams, recIdx,
                 keywords, negatives, recommendations, pc, miner>>

\* one pass of while (campaigns.hasNext()) that ends in continue
MonitorSkip ==
  /\ monitor.pc = "campaigns"
  /\ monitor.next <= Len(monitor.campaigns)
  /\ skipped(monitor.campaigns[monitor.next], monitor.CONFIG)
  /\ monitor' = [ monitor EXCEPT !.next = @ + 1 ]
  /\ UNCHANGED <<CONFIG, rows, queryData, ngramResults, sizeIdx, ngrams, recIdx,
                 keywords, negatives, recommendations, pc, miner>>

\* one pass of while (campaigns.hasNext()) that ends in campaignData.push(row)
MonitorCheck ==
  /\ monitor.pc = "campaigns"
  /\ monitor.next <= Len(monitor.campaigns)
  /\ ~skipped(monitor.campaigns[monitor.next], monitor.CONFIG)
  /\ LET campaign == monitor.campaigns[monitor.next]
         row == monitorRow(campaign, monitor.currentHour, monitor.CONFIG)
     IN monitor' = [ monitor EXCEPT
                       !.next = @ + 1,
                       !.alerts = IF row.status = "OK" THEN @
                                  ELSE Append(@, monitorAlert(campaign, row.status)),
                       !.campaignData = Append(@, row) ]
  /\ UNCHANGED <<CONFIG, rows, queryData, ngramResults, sizeIdx, ngrams, recIdx,
                 keywords, negatives, recommendations, pc, miner>>

\* the end of main: logToSpreadsheet(campaignData) when a sheet is
\* configured, sendAlerts(accountName, alerts) when there is an alert
MonitorFinish ==
  /\ monitor.pc = "campaigns"
  /\ monitor.next > Len(monitor.campaigns)
  /\ monitor' = [ monitor EXCEPT
                    !.pc = "done",
                    !.sheet = IF monitor.CONFIG.SPREADSHEET_URL # "YOUR_SPREADSHEET_URL_HERE"
                                THEN monitor.campaignData ELSE @,
                    !.emails = IF monitor.alerts # <<>> /\ monitor.CONFIG.EMAIL_RECIPIENTS # ""
                                 THEN @ + 1 ELSE @ ]
  /\ UNCHANGED <<CONFIG, rows, queryData, ngramResults, sizeIdx, ngrams, recIdx,
                 keywords, negatives, recommendations, pc, miner>>

MonitorNext ==
  \/ MonitorStart
  \/ MonitorSkip
  \/ MonitorCheck
  \/ MonitorFinish

MonitorSpec == MonitorInit /\ [][MonitorNext]_vars

\* C21 as stated: when the run of the monitor is over, every checked
\* campaign that has spent less than 50% of its daily budget at an account
\* hour >= 12 has the status UNDERSPEND and an underspend alert.
C21_UnderspendAtMidday ==
  monitor.pc = "done" =>
    \A i \in DOMAIN monitor.campaignData :
      LET row == monitor.campaignData[i]
      IN (monitor.currentHour >= Midday /\ 2 * row.todaySpend < row.dailyBudget) =>
           /\ row.status = "UNDERSPEND"
           /\ \E a \in DOMAIN monitor.alerts :
                /\ monitor.alerts[a].campaign = row.campaignName
                /\ monitor.alerts[a].kind = "UNDERSPEND"

-----------------------------------------------------------------------------
(* Negative keyword miner (src/unnamed/part_002) *)
(* The state of a run is the record miner: the script's CONFIG, the rows of *)
(* the search query report, the campaigns and ad groups the selectors of    *)
(* the account find, the negative keywords created so far, and the locals   *)
(* of main and applyNegatives.  A status 'ERROR: ' + e.message is "ERROR";  *)
(* the text of a reason keeps its kind and, for an exclusion term, the term.*)

\* queryLower.indexOf(term) !== -1
contains(text, term) ==
  \E i \in 1..(Len(text) - Len(term) + 1) : SubSeq(text, i, i + Len(term) - 1) = term

\* var CONFIG of the miner
MinerConfig ==
  [ SPREADSHEET_URL       |-> "YOUR_SPREADSHEET_URL_HERE",
    EMAIL_RECIPIENTS      |-> "your-email@example.com",
    APPLY_CHANGES         |-> FALSE,
    MIN_COST              |-> 50,
    MIN_CLICKS            |-> 10,
    MAX_CTR               |-> [n |-> 1, d |-> 100],
    MAX_CONVERSIONS       |-> 0,
    NEGATIVE_LEVEL        |-> "CAMPAIGN",
    NEGATIVE_MATCH_TYPE   |-> "EXACT",
    EXCLUSION_TERMS       |-> << <<"f","r","e","e">>, <<"c","h","e","a","p">>,
                                 <<"d","i","s","c","o","u","n","t">>,
                                 <<"c","o","u","p","o","n">>,
                                 <<"t","o","r","r","e","n","t">>,
                                 <<"d","o","w","n","l","o","a","d">>,
                                 <<"c","r","a","c","k","e","d">>,
                                 <<"p","i","r","a","t","e">> >>,
    BRAND_TERMS           |-> <<>>,
    MAX_NEGATIVES_PER_RUN |-> 50 ]

\* getSearchQueryData of the miner: data.push({ ... })
minerRecord(row) ==
  [ query |-> row.Query, campaign |-> row.CampaignName, adGroup |-> row.AdGroupName,
    impressions |-> row.Impressions, clicks |-> row.Clicks, cost |-> row.Cost,
    conversions |-> row.Conversions ]

minerQueryData(report) == [ i \in DOMAIN report |-> minerRecord(report[i]) ]

\* CONFIG.BRAND_TERMS.map(toLowerCase), CONFIG.EXCLUSION_TERMS.map(toLowerCase)
termsLower(terms) == [ t \in DOMAIN terms |-> toLowerCase(terms[t]) ]

\* brandTermsLower.some(function(brand) { return queryLower.indexOf(brand) !== -1; })
containsBrand(query, cfg) ==
  \E b \in DOMAIN cfg.BRAND_TERMS :
    contains(toLowerCase(query.query), termsLower(cfg.BRAND_TERMS)[b])

\* exclusionTermsLower.find(...): the positions of the terms the query contains
matchedExclusions(query, cfg) ==
  { t \in DOMAIN cfg.EXCLUSION_TERMS :
      contains(toLowerCase(query.query), termsLower(cfg.EXCLUSION_TERMS)[t]) }

\* query.impressions > 0 ? query.clicks / query.impressions : 0
minerCtr(query) == Quotient(query.impressions > 0, query.clicks, query.impressions)

NoReason == [ kind |-> "null", term |-> <<>> ]

\* the if / else if / else if chain that sets reason
minerReason(query, cfg) ==
  LET matched == matchedExclusions(query, cfg)
  IN IF matched # {}
       THEN [ kind |-> "Contains exclusion term",
              term |-> termsLower(cfg.EXCLUSION_TERMS)[CHOOSE t \in matched :
                                                         \A u \in matched : t <= u] ]
     ELSE IF query.cost >= cfg.MIN_COST /\ query.conversions <= cfg.MAX_CONVERSIONS
       THEN [ kind |-> "Zero conversions", term |-> <<>> ]
     ELSE IF query.clicks >= cfg.MIN_CLICKS /\ Leq(minerCtr(query), cfg.MAX_CTR)
       THEN [ kind |-> "Low CTR", term |-> <<>> ]
     ELSE NoReason

\* candidates.push({ ... })
candidateOf(query, cfg) ==
  [ query |-> query.query, campaign |-> query.campaign, adGroup |-> query.adGroup,
    impressions |-> query.impressions, clicks |-> query.clicks, cost |-> query.cost,
    conversions |-> query.conversions, ctr |-> minerCtr(query),
    reason |-> minerReason(query, cfg), status |-> "undefined" ]

\* the filter on seen[c.query]: the first candidate of each query text, and
\* none for a text that names an inherited property of the object seen
deduplicated(sorted) ==
  LET keep == SelectSeq([ i \in DOMAIN sorted |-> i ],
                        LAMBDA i : /\ sorted[i].query \notin ObjectPrototypeKeys
                                   /\ \A j \in 1..(i - 1) : sorted[j].query # sorted[i].query)
  IN [ k \in DOMAIN keep |-> sorted[keep[k]] ]

\* findNegativeCandidates(queryData)
findNegativeCandidates(data, cfg) ==
  LET hit == SelectSeq(data, LAMBDA query : /\ ~containsBrand(query, cfg)
                                            /\ minerReason(query, cfg) # NoReason)
      pushed == [ k \in DOMAIN hit |-> candidateOf(hit[k], cfg) ]
  IN deduplicated(sortDesc(pushed, "cost"))

\* formatNegativeKeyword(query)
formatNegativeKeyword(query, cfg) ==
  IF cfg.NEGATIVE_MATCH_TYPE = "EXACT" THEN <<"[">> \o query \o <<"]">>
  ELSE IF cfg.NEGATIVE_MATCH_TYPE = "PHRASE" THEN <<"\"">> \o query \o <<"\"">>
  ELSE query

\* the mode test with the flag ignored
applyChangesAlways(cfg) == TRUE

\* if (CONFIG.APPLY_CHANGES)
applyChanges(cfg) == cfg.APPLY_CHANGES

\* candidates.map(function(c) { c.status = 'PREVIEW'; return c; })
previewed(candidates) == [ i \in DOMAIN candidates |-> [ candidates[i] EXCEPT !.status = "PREVIEW" ] ]

\* the selector of addCampaignNegative or addAdGroupNegative has a next element
targetFound(candidate, account, cfg) ==
  IF cfg.NEGATIVE_LEVEL = "CAMPAIGN"
    THEN candidate.campaign \in account.campaigns
    ELSE <<candidate.campaign, candidate.adGroup>> \in account.adGroups

\* the negative keyword createNegativeKeyword makes
createdNegative(candidate, cfg) ==
  [ level    |-> IF cfg.NEGATIVE_LEVEL = "CAMPAIGN" THEN "CAMPAIGN" ELSE "AD_GROUP",
    campaign |-> candidate.campaign,
    adGroup  |-> IF cfg.NEGATIVE_LEVEL = "CAMPAIGN" THEN "" ELSE candidate.adGroup,
    text     |-> formatNegativeKeyword(candidate.query, cfg) ]

\* a row of the search query report of the miner
MinerRow(q, campaign, adGroup, impressions, clicks, cost, conversions) ==
  [ Query |-> q, CampaignName |-> campaign, AdGroupName |-> adGroup,
    Impressions |-> impressions, Clicks |-> clicks, Cost |-> cost,
    Conversions |-> conversions ]

\* report rows: an exclusion term, spend without conversions, a low CTR in
\* a campaign that no longer exists, a query that is not wasteful, and a
\* second row of a query text with a higher cost
MinerRows ==
  { MinerRow(<<"f","r","e","e",SPACE,"s","h","o","e","s">>, "Search", "Shoes", 100, 5, 10, 0),
    MinerRow(<<"r","e","d",SPACE,"b","o","o","t","s">>, "Search", "Boots", 2000, 20, 60, 0),
    MinerRow(<<"b","l","u","e",SPACE,"h","a","t","s">>, "Old", "Hats", 5000, 10, 20, 1),
    MinerRow(<<"g","o","o","d",SPACE,"s","h","o","e","s">>, "Search", "Shoes", 100, 20, 30, 2),
    MinerRow(<<"r","e","d",SPACE,"b","o","o","t","s">>, "Old", "Boots", 100, 1, 80, 0),
    MinerRow(<<"C","h","e","a","p",SPACE,"T","e","n","t","s">>, "Search", "Tents", 300, 3, 6, 1) }

MinerConfigs ==
  { [ MinerConfig EXCEPT !.APPLY_CHANGES = apply, !.NEGATIVE_LEVEL = level,
                         !.BRAND_TERMS = brands ] :
      apply \in BOOLEAN, level \in { "CAMPAIGN", "AD_GROUP" },
      brands \in { <<>>, << <<"S","h","o","e","s">> >> } }

\* what the selectors of the account find: the campaign Search with its ad
\* groups Shoes and Boots, with or without the campaign Old and its ad groups
Accounts ==
  { [ campaigns |-> { "Search" },
      adGroups  |-> { <<"Search", "Shoes">>, <<"Search", "Boots">> } ],
    [ campaigns |-> { "Search", "Old" },
      adGroups  |-> { <<"Search", "Shoes">>, <<"Search", "Boots">>,
                      <<"Old", "Hats">>, <<"Old", "Boots">> } ] }

MaxMinerRows == 2

MinerInit ==
  /\ \E cfg \in MinerConfigs, report \in SeqsUpTo(MinerRows, MaxMinerRows),
        account \in Accounts :
       miner = [ pc |-> "start", CONFIG |-> cfg, report |-> report, account |-> account,
                 queryData |-> <<>>, candidates |-> <<>>, next |-> 1, results |-> <<>>,
                 created |-> <<>>, sheet |-> <<>>, emails |-> 0 ]
  /\ CONFIG = DefaultConfig
  /\ rows = <<>>
  /\ InitCommon
  /\ monitor = MonitorIdle

\* candidates.slice(0, CONFIG.MAX_NEGATIVES_PER_RUN) of the candidates found
limited(data, cfg) ==
  slice(findNegativeCandidates(data, cfg), 0, cfg.MAX_NEGATIVES_PER_RUN)

\* logResults(results, now, timeZone) when a sheet is configured
minerSheet(sheet, results, cfg) ==
  IF cfg.SPREADSHEET_URL # "" /\ cfg.SPREADSHEET_URL # "YOUR_SPREADSHEET_URL_HERE"
    THEN sheet \o results ELSE sheet

\* sendNotification(accountName, results)
minerEmails(emails, cfg) == IF cfg.EMAIL_RECIPIENTS = "" THEN emails ELSE emails + 1

\* main when no candidate is found: return
MinerNoCandidates ==
  /\ miner.pc = "start"
  /\ findNegativeCandidates(minerQueryData(miner.report), miner.CONFIG) = <<>>
  /\ miner' = [ miner EXCEPT !.pc = "returned", !.queryData = minerQueryData(miner.report) ]
  /\ UNCHANGED <<CONFIG, rows, queryData, ngramResults, sizeIdx, ngrams, recIdx,
                 keywords, negatives, recommendations, pc, monitor>>

\* main in preview mode, to its end
MinerPreview ==
  /\ miner.pc = "start"
  /\ findNegativeCandidates(minerQueryData(miner.report), miner.CONFIG) # <<>>
  /\ ~applyChanges(miner.CONFIG)
  /\ LET results == previewed(limited(minerQueryData(miner.report), miner.CONFIG))
     IN miner' = [ miner EXCEPT !.pc = "done",
                                !.queryData = minerQueryData(miner.report),
                                !.candidates = results,
                                !.results = results,
                                !.sheet = minerSheet(@, results, miner.CONFIG),
                                !.emails = minerEmails(@, miner.CONFIG) ]
  /\ UNCHANGED <<CONFIG, rows, queryData, ngramResults, sizeIdx, ngrams, recIdx,
                 keywords, negatives, recommendations, pc, monitor>>

\* main in apply mode up to the call of applyNegatives(candidates)
MinerBeginApply ==
  /\ miner.pc = "start"
  /\ findNegativeCandidates(minerQueryData(miner.report), miner.CONFIG) # <<>>
  /\ applyChanges(miner.CONFIG)
  /\ miner' = [ miner EXCEPT !.pc = "apply",
                             !.queryData = minerQueryData(miner.report),
                             !.candidates = limited(minerQueryData(miner.report), miner.CONFIG),
                             !.next = 1,
                             !.results = <<>> ]
  /\ UNCHANGED <<CONFIG, rows, queryData, ngramResults, sizeIdx, ngrams, recIdx,
                 keywords, negatives, recommendations, pc, monitor>>

\* candidate.status = ...; results.push(candidate);
statusSet(m, status) ==
  [ m EXCEPT !.candidates[m.next].status = status,
             !.results = Append(@, [ m.candidates[m.next] EXCEPT !.status = status ]),
             !.next = @ + 1 ]

\* applyNegatives, one candidate: the selector finds the campaign or the ad
\* group and createNegativeKeyword returns
MinerApplyCreated ==
  /\ miner.pc = "apply"
  /\ miner.next <= Len(miner.candidates)
  /\ targetFound(miner.candidates[miner.next], miner.account, miner.CONFIG)
  /\ miner' = [ statusSet(miner, "ADDED") EXCEPT
                  !.created = Append(@, createdNegative(miner.candidates[miner.next],
                                                        miner.CONFIG)) ]
  /\ UNCHANGED <<CONFIG, rows, queryData, ngramResults, sizeIdx, ngrams, recIdx,
                 keywords, negatives, recommendations, pc, monitor>>

\* applyNegatives, one candidate: the selector finds nothing, so that the
\* body of if (campaigns.hasNext()) or if (adGroups.hasNext()) is not run
MinerApplyNotFound ==
  /\ miner.pc = "apply"
  /\ miner.next <= Len(miner.candidates)
  /\ ~targetFound(miner.candidates[miner.next], miner.account, miner.CONFIG)
  /\ miner' = statusSet(miner, "ADDED")
  /\ UNCHANGED <<CONFIG, rows, queryData, ngramResults, sizeIdx, ngrams, recIdx,
                 keywords, negatives, recommendations, pc, monitor>>

\* applyNegatives, one candidate: a call of the try block throws (the
\* selector or createNegativeKeyword) and the catch block sets the status
MinerApplyError ==
  /\ miner.pc = "apply"
  /\ miner.next <= Len(miner.candidates)
  /\ miner' = statusSet(miner, "ERROR")
  /\ UNCHANGED <<CONFIG, rows, queryData, ngramResults, sizeIdx, ngrams, recIdx,
                 keywords, negatives, recommendations, pc, monitor>>

\* the return of applyNegatives and the end of main
MinerReport ==
  /\ miner.pc = "apply"
  /\ miner.next > Len(miner.candidates)
  /\ miner' = [ miner EXCEPT !.pc = "done",
                             !.sheet = minerSheet(@, miner.results, miner.CONFIG),
                             !.emails = minerEmails(@, miner.CONFIG) ]
  /\ UNCHANGED <<CONFIG, rows, queryData, ngramResults, sizeIdx, ngrams, recIdx,
                 keywords, negatives, recommendations, pc, monitor>>

MinerNext ==
  \/ MinerNoCandidates
  \/ MinerPreview
  \/ MinerBeginApply
  \/ MinerApplyCreated
  \/ MinerApplyNotFound
  \/ MinerApplyError
  \/ MinerReport

MinerSpec == MinerInit /\ [][MinerNext]_vars

\* C22: in a run of the miner with APPLY_CHANGES false no negative keyword
\* is ever created on a campaign or an ad group, applyNegatives is not
\* entered, and when the run has reported, every candidate it found (up to
\* MAX_NEGATIVES_PER_RUN) is a result with the status PREVIEW.
C22_PreviewCreatesNothing ==
  ~miner.CONFIG.APPLY_CHANGES =>
    /\ miner.created = <<>>
    /\ miner.pc \in { "start", "returned", "done" }
    /\ \A i \in DOMAIN miner.results : miner.results[i].status = "PREVIEW"
    /\ miner.pc = "done" =>
         /\ Len(miner.results) =
              Len(limited(minerQueryData(miner.report), miner.CONFIG))
         /\ \A i \in DOMAIN miner.results :
              miner.results[i].query =
                limited(minerQueryData(miner.report), miner.CONFIG)[i].query

\* a preview run has reported two candidates whose campaigns both exist
C22_Witness ==
  /\ ~miner.CONFIG.APPLY_CHANGES
  /\ miner.pc = "done"
  /\ Len(miner.results) = 2
  /\ \A i \in DOMAIN miner.results :
       targetFound(miner.results[i], miner.account, miner.CONFIG)
  /\ miner.emails = 1

-----------------------------------------------------------------------------
(* Further properties of the n-gram analysis *)

\* C23: the call of generateRecommendations leaves the aggregate maps as
\* they are: the step that makes the recommendations changes no map, key or
\* field of an aggregate, and after it every map is still, key for key and
\* in the same order, the map analyzeNgrams returns for its size.
C23_MapsUntouched ==
  [][ (pc = "analyze" /\ pc' = "done") =>
        /\ ngramResults' = ngramResults
        /\ \A n \in DOMAIN ngramResults' :
             ngramResults'[n] = analyzeNgrams(queryData', n, CONFIG') ]_vars

\* recommendations of both kinds have been made from maps of two sizes that
\* hold aggregates left out of both lists
C23_Witness ==
  /\ pc = "done"
  /\ recommendations.keywords # <<>>
  /\ recommendations.negatives # <<>>
  /\ Cardinality(DOMAIN ngramResults) >= 2
  /\ \E c \in Classified :
       ~Listed(keywords, c[1], c[2]) /\ ~Listed(negatives, c[1], c[2])

\* the sums and the query count of an aggregate
RawFields == { "queries", "impressions", "clicks", "cost", "conversions", "conversionValue" }

\* what count occurrences of a record add to a field of an aggregate
Added(count, query, field) ==
  IF field = "queries" THEN count ELSE count * query[field]

\* C24: from one folded record to the next the map in progress only grows:
\* every aggregate it had is still there, at its place, under its key, with
\* no sum and no query count smaller than before; the aggregates that are
\* new stand after them, one per n-gram text that the record is the first to
\* contain, and hold what the record alone adds to sums that start at 0; an
\* aggregate that existed gets what the record adds, and no second aggregate
\* of its key is made.
C24_AggregatesGrow ==
  [][ (pc = "analyze" /\ recIdx' = recIdx + 1) =>
        LET query == queryData[recIdx]
            n     == CONFIG.NGRAM_SIZES[sizeIdx]
            ws    == words(query, CONFIG)
        IN /\ Len(ngrams') >= Len(ngrams)
           /\ { ngrams[i].ngram : i \in DOMAIN ngrams } \subseteq
                { ngrams'[i].ngram : i \in DOMAIN ngrams' }
           /\ \A i, j \in DOMAIN ngrams' : ngrams'[i].ngram = ngrams'[j].ngram => i = j
           /\ \A i \in DOMAIN ngrams :
                /\ ngrams'[i].ngram = ngrams[i].ngram
                /\ \A f \in RawFields :
                     /\ ngrams'[i][f] >= ngrams[i][f]
                     /\ ngrams'[i][f] =
                          ngrams[i][f] + Added(WindowCount(ws, ngrams[i].ngram, n), query, f)
           /\ \A i \in DOMAIN ngrams' \ DOMAIN ngrams :
                /\ WindowCount(ws, ngrams'[i].ngram, n) >= 1
                /\ \A f \in RawFields :
                     ngrams'[i][f] = Added(WindowCount(ws, ngrams'[i].ngram, n), query, f) ]_vars

\* the second record of a report has just been folded: it added to an
\* aggregate made by the first record and made an aggregate of its own
C24_Witness ==
  /\ pc = "analyze"
  /\ recIdx = 3
  /\ sizeIdx <= Len(CONFIG.NGRAM_SIZES)
  /\ LET n      == CONFIG.NGRAM_SIZES[sizeIdx]
         before == foldQuery(<<>>, queryData[1], n, CONFIG)
     IN /\ before # <<>>
        /\ Len(ngrams) > Len(before)
        /\ \E i \in DOMAIN before :
             /\ ngrams[i].ngram = before[i].ngram
             /\ ngrams[i].queries > before[i].queries
             /\ ngrams[i].cost > before[i].cost

\* the raw and the derived metrics of an aggregate
Metrics ==
  { "impressions", "clicks", "cost", "conversions", "conversionValue",
    "ctr", "cpc", "convRate", "cpa", "roas" }

\* the metrics a keyword opportunity and a negative candidate are made with
KeywordMetrics == { "impressions", "clicks", "ctr", "conversions", "convRate", "cpa" }
NegativeMetrics == { "impressions", "clicks", "ctr", "cost", "conversions", "cpa" }

\* the aggregate a recommendation was made from
SourceOf(e) == ngramResults[e.size][IndexOf(ngramResults[e.size], e.ngram)]

\* the recommendations, before and after truncation
AllKeywords == Range(keywords) \cup Range(recommendations.keywords)
AllNegatives == Range(negatives) \cup Range(recommendations.negatives)

\* C25 as stated: every recommendation of either list has the ten metrics
\* of its source aggregate (impressions, clicks, cost, conversions,
\* conversionValue, ctr, cpc, convRate, cpa, roas), each with the value the
\* aggregate has.
C25_AllMetricsCarried ==
  pc = "done" =>
    \A e \in AllKeywords \cup AllNegatives :
      \A f \in Metrics : f \in DOMAIN e /\ e[f] = SourceOf(e)[f]

\* C25 amended: a keyword opportunity carries exactly the n-gram text, the
\* size, the reason and six metrics of its source aggregate: impressions,
\* clicks, ctr, conversions, convRate, cpa; a negative candidate carries
\* exactly the text, the size, the reason and impressions, clicks, ctr,
\* cost, conversions, cpa; each carried metric has the value of the
\* aggregate at classification time, and conversionValue, cpc and roas are
\* carried by neither.
C25_CarriedMetrics ==
  pc = "done" =>
    /\ \A e \in AllKeywords :
         /\ DOMAIN e = { "ngram", "size", "reason" } \cup KeywordMetrics
         /\ HasOwn(ngramResults[e.size], e.ngram)
         /\ \A f \in KeywordMetrics : e[f] = SourceOf(e)[f]
    /\ \A e \in AllNegatives :
         /\ DOMAIN e = { "ngram", "size", "reason" } \cup NegativeMetrics
         /\ HasOwn(ngramResults[e.size], e.ngram)
         /\ \A f \in NegativeMetrics : e[f] = SourceOf(e)[f]

\* a returned opportunity and a returned negative candidate whose source
\* aggregates have a cost, a conversion value and a cost per conversion that
\* differs from the cost per click
C25_Witness ==
  /\ pc = "done"
  /\ \E e \in Range(recommendations.keywords) :
       /\ SourceOf(e).cost > 0 /\ SourceOf(e).roas.n > 0
       /\ SourceOf(e).cpa # SourceOf(e).cpc
       /\ e.cpa = SourceOf(e).cpa
  /\ \E e \in Range(recommendations.negatives) :
       /\ SourceOf(e).convRate.n > 0 /\ SourceOf(e).roas.n > 0
       /\ e.cost = SourceOf(e).cost

\* the number of windows of n tokens of a sequence of len tokens
Windows(len, n) == IF len - n + 1 > 0 THEN len - n + 1 ELSE 0

\* the sum of a field (or of the query counts) over the aggregates of a map
MapTotal(map, field) == SumRange([ i \in DOMAIN map |-> map[i][field] ], 1, Len(map))

\* the sum over the query records of the field (1 for the query counts)
\* times the number of windows of n tokens of the record
RecordTotal(n, field) ==
  SumRange([ k \in DOMAIN queryData |-> Added(Windows(Len(Tokens[k]), n), queryData[k], field) ],
           1, Len(queryData))

ProducedTexts(n) ==
  UNION { { WindowText(KeptPieces(rows[k].Query, CONFIG.STOP_WORDS), p, n) :
              p \in 1..Windows(Len(KeptPieces(rows[k].Query, CONFIG.STOP_WORDS)), n) } :
          k \in DOMAIN rows }

\* C27 as stated: for every configured size n >= 1 the keys of the returned
\* map are exactly the n-gram texts the sliding window produces over all the
\* records, whatever the text (a word that names a built-in property of
\* objects included), and every key is made of exactly n tokens, each longer
\* than one character and not a stop word.
C27_KeysAreProducedTexts ==
  pc = "done" =>
    \A n \in DOMAIN ngramResults :
      n >= 1 =>
        /\ { ngramResults[n][i].ngram : i \in DOMAIN ngramResults[n] } = ProducedTexts(n)
        /\ \A i \in DOMAIN ngramResults[n] :
             LET tokens == split(ngramResults[n][i].ngram)
             IN /\ Len(tokens) = n
                /\ \A t \in DOMAIN tokens :
                     Len(tokens[t]) > 1 /\ tokens[t] \notin Range(CONFIG.STOP_WORDS)

\* no two entries of the list have the same n-gram text and the same size
NoRepeatedPair(list) ==
  \A i, j \in DOMAIN list :
    (list[i].ngram = list[j].ngram /\ list[i].size = list[j].size) => i = j

\* C28 as stated: whatever the configured list of sizes, a list that names a
\* size twice included, no pair of n-gram text and size appears more than once
\* among the keyword opportunities, and none more than once among the negative
\* candidates.
C28_NoRepeatedPair ==
  pc = "done" =>
    /\ NoRepeatedPair(recommendations.keywords)
    /\ NoRepeatedPair(recommendations.negatives)

\* C29 as stated: an aggregate without conversions has cpa = 0, so whatever
\* its cost, the target CPA and the multiplier, it is never a negative
\* candidate with the reason "High CPA"; it is a negative candidate only when
\* its ctr is at most the low-CTR threshold.
C29_ZeroConversionsNeverHighCpa ==
  pc = "done" =>
    /\ \A e \in Range(negatives) \cup Range(recommendations.negatives) :
         e.conversions = 0 => (e.reason # "High CPA" /\ CtrLow(e))
    /\ \A c \in Classified :
         (c[2].conversions = 0 /\ ~CtrLow(c[2])) => ~Listed(negatives, c[1], c[2])

\* C30 as stated: in apply mode a candidate is reported with the status ADDED
\* only if a negative keyword was created for it on a campaign or an ad group
\* during the run; every candidate passed to applyNegatives ends with exactly
\* one status, ADDED or ERROR, and a failure on one candidate does not stop
\* the processing of the candidates after it.
C30_AddedMeansCreated ==
  (miner.pc = "done" /\ applyChanges(miner.CONFIG) /\ miner.candidates # <<>>) =>
    /\ Len(miner.results) = Len(miner.candidates)
    /\ \A i \in DOMAIN miner.results :
         /\ miner.results[i].query = miner.candidates[i].query
         /\ miner.results[i].status \in { "ADDED", "ERROR" }
         /\ miner.results[i].status = "ADDED" =>
              \E k \in DOMAIN miner.created :
                miner.created[k] = createdNegative(miner.candidates[i], miner.CONFIG)

====
